---- MODULE Spec2Model ----
(***************************************************************************)
(* Model of the OVC-Analysis pipelines:                                    *)
(*   - article_info_extractor.py         (extraction run, tolerant parser, *)
(*                                        word capping)                    *)
(*   - article_info_network_generator.py (bipartite graph builder)         *)
(*   - code/article_info_stat_generator.py (frequency statistics)          *)
(* Text is modelled as a sequence of one-character strings, so that        *)
(* stripping, splitting, case mapping and ordering are computed, not       *)
(* assumed.                                                                *)
(***************************************************************************)
EXTENDS Integers, Sequences, FiniteSets, TLC

VARIABLES
    \* ---- extraction run (article_info_extractor.main) ----
    listing,      \* files of INPUT_FOLDER (a set of names)
    api_key,      \* TRUE iff OPENAI_API_KEY is set
    pc,           \* "idle" | "loop" | "done"
    pdf_files,    \* the sorted, filtered file list of the current run
    idx,          \* position of the for loop in pdf_files (1-based, next to process)
    run,          \* number of runs started so far
    csv_exists,   \* os.path.exists(CSV_FILE)
    csv,          \* rows of CSV_FILE, in file order
    md_files,     \* names of preprocessed files written
    txt_files,    \* names of raw-response files written
    attempted,    \* "=== Processing" log of the current run
    last,         \* what the environment did to the document processed last
    \* ---- tolerant parser (clean_and_parse_json alone) ----
    raw,          \* the annotator response handed to the parser
    parsed,       \* what the parser returned
    ppc,          \* "new" | "parsed"
    \* ---- table consumers (graph builder, statistics aggregator) ----
    prog,         \* "graph" | "stat": which program reads the table
    df,           \* the table as loaded: sequence of rows
    case_insensitive, \* CASE_INSENSITIVE of the statistics aggregator
    tpc,          \* "rows" | "next" | "done"
    cat,          \* index of the category being processed
    rowi,         \* next row of df.iterrows() in build_graph
    seen_nodes,   \* build_graph: seen_nodes
    seen_edges,   \* build_graph: seen_edges
    net_nodes,    \* nodes of the pyvis Network, in insertion order
    net_edges,    \* edges of the pyvis Network, in insertion order
    graphs,       \* saved graph per category name
    sheets,       \* written sheet per category name
    \* ---- word capping (cap_words alone) ----
    cap_text, cap_n, cap_m, cap_r1, cap_r2, cpc,
    \* ---- token cleanup (clean_token alone) ----
    tok_in,       \* the token handed to clean_token
    tok_out,      \* what clean_token returned
    kpc           \* "new" | "cleaned"

extract_vars == <<listing, api_key, pc, pdf_files, idx, run, csv_exists, csv,
                  md_files, txt_files, attempted, last>>
parse_vars   == <<raw, parsed, ppc>>
table_vars   == <<prog, df, case_insensitive, tpc, cat, rowi, seen_nodes,
                  seen_edges, net_nodes, net_edges, graphs, sheets>>
cap_vars     == <<cap_text, cap_n, cap_m, cap_r1, cap_r2, cpc>>
token_vars   == <<tok_in, tok_out, kpc>>
vars == <<extract_vars, parse_vars, table_vars, cap_vars, token_vars>>

(***************************************************************************)
(* Characters and strings                                                  *)
(***************************************************************************)
\* The characters the model uses, in code-point order.
CodePoints ==
    <<"\n", " ", "\"", "'", "(", ")", ",", "-", ".", "/",
      "0", "1", "2", "3", "4", "5", "6", "7", "8", "9", ":", ";",
      "A", "B", "C", "D", "E", "F", "G", "H", "I", "J", "K", "L", "M",
      "N", "O", "P", "Q", "R", "S", "T", "U", "V", "W", "X", "Y", "Z",
      "[", "]",
      "a", "b", "c", "d", "e", "f", "g", "h", "i", "j", "k", "l", "m",
      "n", "o", "p", "q", "r", "s", "t", "u", "v", "w", "x", "y", "z",
      "{", "|", "}">>

UpperLetters ==
    <<"A", "B", "C", "D", "E", "F", "G", "H", "I", "J", "K", "L", "M",
      "N", "O", "P", "Q", "R", "S", "T", "U", "V", "W", "X", "Y", "Z">>
LowerLetters ==
    <<"a", "b", "c", "d", "e", "f", "g", "h", "i", "j", "k", "l", "m",
      "n", "o", "p", "q", "r", "s", "t", "u", "v", "w", "x", "y", "z">>

Ord(c) == CHOOSE k \in DOMAIN CodePoints : CodePoints[k] = c

IsSpace(c) == c \in {" ", "\n"}

UpperChar(c) ==
    IF \E k \in DOMAIN LowerLetters : LowerLetters[k] = c
    THEN UpperLetters[CHOOSE k \in DOMAIN LowerLetters : LowerLetters[k] = c]
    ELSE c
LowerChar(c) ==
    IF \E k \in DOMAIN UpperLetters : UpperLetters[k] = c
    THEN LowerLetters[CHOOSE k \in DOMAIN UpperLetters : UpperLetters[k] = c]
    ELSE c

\* str.upper(), str.lower()
Upper(s) == [k \in DOMAIN s |-> UpperChar(s[k])]
Lower(s) == [k \in DOMAIN s |-> LowerChar(s[k])]

\* str.strip(): drop leading and trailing whitespace
RECURSIVE LStrip(_)
LStrip(s) == IF s # <<>> /\ IsSpace(Head(s)) THEN LStrip(Tail(s)) ELSE s
RECURSIVE RStrip(_)
RStrip(s) ==
    IF s # <<>> /\ IsSpace(s[Len(s)]) THEN RStrip(SubSeq(s, 1, Len(s) - 1)) ELSE s
Strip(s) == RStrip(LStrip(s))

\* re.findall of non-whitespace runs, and str.split(): the maximal non-whitespace runs
RECURSIVE WordsFrom(_, _, _)
WordsFrom(s, k, cur) ==
    IF k > Len(s) THEN (IF cur = <<>> THEN <<>> ELSE <<cur>>)
    ELSE IF IsSpace(s[k])
         THEN (IF cur = <<>> THEN <<>> ELSE <<cur>>) \o WordsFrom(s, k + 1, <<>>)
         ELSE WordsFrom(s, k + 1, Append(cur, s[k]))
Words(s) == WordsFrom(s, 1, <<>>)

\* sep.join(parts)
RECURSIVE Join(_, _)
Join(parts, sep) ==
    IF parts = <<>> THEN <<>>
    ELSE IF Len(parts) = 1 THEN parts[1]
    ELSE parts[1] \o sep \o Join(Tail(parts), sep)

\* re.split(r"[seps]", s): split at every separator character
RECURSIVE SplitFrom(_, _, _, _)
SplitFrom(s, seps, k, cur) ==
    IF k > Len(s) THEN <<cur>>
    ELSE IF s[k] \in seps THEN <<cur>> \o SplitFrom(s, seps, k + 1, <<>>)
    ELSE SplitFrom(s, seps, k + 1, Append(cur, s[k]))
SplitEach(s, seps) == SplitFrom(s, seps, 1, <<>>)

\* re.split(r"[seps]+", s): a run of separators splits once
RECURSIVE SplitRunsFrom(_, _, _, _)
SplitRunsFrom(s, seps, k, cur) ==
    IF k > Len(s) THEN <<cur>>
    ELSE IF s[k] \in seps
         THEN IF k > 1 /\ s[k - 1] \in seps
              THEN SplitRunsFrom(s, seps, k + 1, <<>>)
              ELSE <<cur>> \o SplitRunsFrom(s, seps, k + 1, <<>>)
         ELSE SplitRunsFrom(s, seps, k + 1, Append(cur, s[k]))
SplitRuns(s, seps) == SplitRunsFrom(s, seps, 1, <<>>)

\* s < t in Python's string order (code points, shorter prefix first)
RECURSIVE StrLess(_, _)
StrLess(s, t) ==
    IF t = <<>> THEN FALSE
    ELSE IF s = <<>> THEN TRUE
    ELSE IF Head(s) = Head(t) THEN StrLess(Tail(s), Tail(t))
    ELSE Ord(Head(s)) < Ord(Head(t))

\* all strings over an alphabet of length at most n
StringsUpTo(alphabet, n) == UNION {[1..k -> alphabet] : k \in 0..n}

(***************************************************************************)
(* Text preprocessor: word_count, cap_words                                *)
(***************************************************************************)
word_count(text) == Len(Words(text))

\* tokens[:cap]
SliceTo(tokens, cap) ==
    IF cap >= 0 THEN SubSeq(tokens, 1, IF cap < Len(tokens) THEN cap ELSE Len(tokens))
    ELSE SubSeq(tokens, 1, Len(tokens) + cap)

cap_words_no_guard(text, cap) == Join(SliceTo(Words(text), cap), <<" ">>)

cap_words(text, cap) ==
    LET tokens == Words(text)
    IN IF Len(tokens) <= cap THEN text
       ELSE Join(SliceTo(tokens, cap), <<" ">>)

(***************************************************************************)
(* Python values and annotator responses                                   *)
(* A value is a record [t, keys, kids, n, s]:                              *)
(*   dict   keys = its keys in order, kids = its values                    *)
(*   list   kids = its elements                                            *)
(*   int    n = its value                                                  *)
(*   str    s = its content                                                *)
(*   none   None;   object   a value json.dumps cannot serialise           *)
(* A response text is a sequence of lexical symbols: FENCE is the three    *)
(* back-quotes of a code fence, json the word after a tagged fence, " "    *)
(* whitespace, and a quoted word a string literal.                         *)
(***************************************************************************)
PyDict(keys, kids) == [t |-> "dict", keys |-> keys, kids |-> kids, n |-> 0, s |-> <<>>]
PyList(kids) == [t |-> "list", keys |-> <<>>, kids |-> kids, n |-> 0, s |-> <<>>]
PyInt(n) == [t |-> "int", keys |-> <<>>, kids |-> <<>>, n |-> n, s |-> <<>>]
PyStr(s) == [t |-> "str", keys |-> <<>>, kids |-> <<>>, n |-> 0, s |-> s]
PyNone == [t |-> "none", keys |-> <<>>, kids |-> <<>>, n |-> 0, s |-> <<>>]
PyObject == [t |-> "object", keys |-> <<>>, kids |-> <<>>, n |-> 0, s |-> <<>>]
EmptyDict == PyDict(<<>>, <<>>)

Digits == <<"0", "1", "2", "3", "4", "5", "6", "7", "8", "9">>
IsDigit(c) == \E k \in DOMAIN Digits : Digits[k] = c
DigitValue(c) == (CHOOSE k \in DOMAIN Digits : Digits[k] = c) - 1

\* string literals of the response alphabet and the words they quote
Literals == {"\"Genes\"", "\"TP53\""}
Content(lit) == IF lit = "\"Genes\"" THEN "Genes" ELSE "TP53"
Quote(word) == IF word = "Genes" THEN "\"Genes\"" ELSE "\"TP53\""

RECURSIVE SkipWs(_, _)
SkipWs(s, k) == IF k <= Len(s) /\ s[k] = " " THEN SkipWs(s, k + 1) ELSE k

At(s, k, c) == k <= Len(s) /\ s[k] = c

ParseFail == [ok |-> FALSE, val |-> PyNone, next |-> 0]
ParseOk(v, k) == [ok |-> TRUE, val |-> v, next |-> k]

\* the digits of a JSON integer starting at k: value so far acc
RECURSIVE ParseDigits(_, _, _)
ParseDigits(s, k, acc) ==
    IF k <= Len(s) /\ IsDigit(s[k])
    THEN ParseDigits(s, k + 1, 10 * acc + DigitValue(s[k]))
    ELSE ParseOk(PyInt(acc), k)

\* json decoder: one value starting at s[k] (k already past whitespace)
RECURSIVE ParseValue(_, _)
RECURSIVE ParseMembers(_, _, _, _)
RECURSIVE ParseElements(_, _, _)
ParseValue(s, k) ==
    IF k > Len(s) THEN ParseFail
    ELSE IF s[k] = "{" THEN
        LET k1 == SkipWs(s, k + 1)
        IN IF At(s, k1, "}") THEN ParseOk(EmptyDict, k1 + 1)
           ELSE ParseMembers(s, k1, <<>>, <<>>)
    ELSE IF s[k] = "[" THEN
        LET k1 == SkipWs(s, k + 1)
        IN IF At(s, k1, "]") THEN ParseOk(PyList(<<>>), k1 + 1)
           ELSE ParseElements(s, k1, <<>>)
    ELSE IF s[k] \in Literals THEN ParseOk(PyStr(<<Content(s[k])>>), k + 1)
    ELSE IF s[k] = "null" THEN ParseOk(PyNone, k + 1)
    ELSE IF s[k] = "0" THEN ParseOk(PyInt(0), k + 1)
    ELSE IF IsDigit(s[k]) THEN ParseDigits(s, k, 0)
    ELSE ParseFail

\* members of an object: "key" : value [, "key" : value]* }
ParseMembers(s, k, keys, kids) ==
    IF ~(k <= Len(s) /\ s[k] \in Literals) THEN ParseFail
    ELSE LET k2 == SkipWs(s, k + 1)
         IN IF ~At(s, k2, ":") THEN ParseFail
            ELSE LET r == ParseValue(s, SkipWs(s, k2 + 1))
                 IN IF ~r.ok THEN ParseFail
                    ELSE LET k3 == SkipWs(s, r.next)
                             key == Content(s[k])
                             \* a repeated key keeps its place and takes the last value
                             dup == \E j \in DOMAIN keys : keys[j] = key
                             keys2 == IF dup THEN keys ELSE Append(keys, key)
                             kids2 == IF dup
                                      THEN [j \in DOMAIN kids |->
                                              IF keys[j] = key THEN r.val ELSE kids[j]]
                                      ELSE Append(kids, r.val)
                         IN IF At(s, k3, "}") THEN ParseOk(PyDict(keys2, kids2), k3 + 1)
                            ELSE IF At(s, k3, ",")
                                 THEN ParseMembers(s, SkipWs(s, k3 + 1), keys2, kids2)
                                 ELSE ParseFail

\* elements of an array: value [, value]* ]
ParseElements(s, k, kids) ==
    LET r == ParseValue(s, k)
    IN IF ~r.ok THEN ParseFail
       ELSE LET k3 == SkipWs(s, r.next)
            IN IF At(s, k3, "]") THEN ParseOk(PyList(Append(kids, r.val)), k3 + 1)
               ELSE IF At(s, k3, ",")
                    THEN ParseElements(s, SkipWs(s, k3 + 1), Append(kids, r.val))
                    ELSE ParseFail

\* json.loads(text): [ok |-> FALSE] stands for a raised JSONDecodeError
json_loads(text) ==
    LET r == ParseValue(text, SkipWs(text, 1))
    IN IF r.ok /\ SkipWs(text, r.next) > Len(text) THEN r ELSE ParseFail

\* json.dumps(v): the text of a value; Serialisable(v) is FALSE where it raises
RECURSIVE Serialisable(_)
Serialisable(v) ==
    /\ v.t # "object"
    /\ \A j \in DOMAIN v.kids : Serialisable(v.kids[j])

RECURSIVE DigitsOf(_)
DigitsOf(n) == IF n < 10 THEN <<Digits[n + 1]>> ELSE Append(DigitsOf(n \div 10), Digits[(n % 10) + 1])

RECURSIVE json_dumps(_)
json_dumps(v) ==
    IF v.t = "dict" THEN
        <<"{">> \o Join([j \in DOMAIN v.kids |->
                           <<Quote(v.keys[j]), ":", " ">> \o json_dumps(v.kids[j])],
                        <<",", " ">>) \o <<"}">>
    ELSE IF v.t = "list" THEN
        <<"[">> \o Join([j \in DOMAIN v.kids |-> json_dumps(v.kids[j])], <<",", " ">>)
                \o <<"]">>
    ELSE IF v.t = "int" THEN DigitsOf(v.n)
    ELSE IF v.t = "str" THEN <<Quote(v.s[1])>>
    ELSE <<"null">>

(***************************************************************************)
(* Tolerant structured-output parser: clean_and_parse_json                 *)
(***************************************************************************)
\* str.strip() on a response text
RECURSIVE SymLStrip(_)
SymLStrip(s) == IF s # <<>> /\ Head(s) = " " THEN SymLStrip(Tail(s)) ELSE s
RECURSIVE SymRStrip(_)
SymRStrip(s) ==
    IF s # <<>> /\ s[Len(s)] = " " THEN SymRStrip(SubSeq(s, 1, Len(s) - 1)) ELSE s
SymStrip(s) == SymRStrip(SymLStrip(s))

\* "```json" in text
HasTaggedFence(s) == \E k \in 1..(Len(s) - 1) : s[k] = "FENCE" /\ s[k + 1] = "json"
FirstTaggedFence(s) ==
    CHOOSE k \in 1..(Len(s) - 1) :
        /\ s[k] = "FENCE" /\ s[k + 1] = "json"
        /\ \A j \in 1..(k - 1) : ~(s[j] = "FENCE" /\ s[j + 1] = "json")
HasFence(s) == \E k \in DOMAIN s : s[k] = "FENCE"
FirstFence(s) ==
    CHOOSE k \in DOMAIN s : s[k] = "FENCE" /\ \A j \in 1..(k - 1) : s[j] # "FENCE"

\* text.split("```json", 1)[-1], text.split("```", 1)[-1], text.split("```", 1)[0]
AfterTaggedFence(s) ==
    IF HasTaggedFence(s) THEN SubSeq(s, FirstTaggedFence(s) + 2, Len(s)) ELSE s
AfterFence(s) == IF HasFence(s) THEN SubSeq(s, FirstFence(s) + 1, Len(s)) ELSE s
BeforeFence(s) == IF HasFence(s) THEN SubSeq(s, 1, FirstFence(s) - 1) ELSE s

\* lines 97-103: strip common code-fence patterns
strip_fence(text) ==
    IF text # <<>> /\ Head(text) = "FENCE"
    THEN SymStrip(BeforeFence(IF HasTaggedFence(text) THEN AfterTaggedFence(text)
                                                      ELSE AfterFence(text)))
    ELSE text

\* text.find("{"), text.rfind("}"): 0 stands for -1
FindOpen(s) ==
    IF \E k \in DOMAIN s : s[k] = "{"
    THEN CHOOSE k \in DOMAIN s : s[k] = "{" /\ \A j \in 1..(k - 1) : s[j] # "{"
    ELSE 0
RFindClose(s) ==
    IF \E k \in DOMAIN s : s[k] = "}"
    THEN CHOOSE k \in DOMAIN s : s[k] = "}" /\ \A j \in (k + 1)..Len(s) : s[j] # "}"
    ELSE 0

clean_and_parse_json(rawv) ==
    IF rawv.t = "dict" THEN rawv
    ELSE IF rawv.t # "str" THEN
        IF Serialisable(rawv)
        THEN LET r == json_loads(json_dumps(rawv))
             IN IF r.ok THEN r.val ELSE EmptyDict
        ELSE EmptyDict
    ELSE
        LET text == strip_fence(SymStrip(rawv.s))
            direct == json_loads(text)
        IN IF direct.ok THEN direct.val
           ELSE LET start == FindOpen(text)
                    end == RFindClose(text)
                IN IF start # 0 /\ end # 0 /\ end > start
                   THEN LET r == json_loads(SubSeq(text, start, end))
                        IN IF r.ok THEN r.val ELSE EmptyDict
                   ELSE EmptyDict

(***************************************************************************)
(* Field normaliser and row of the table                                   *)
(***************************************************************************)
\* repr(v), as str() of a value inside a list or a mapping shows it
RECURSIVE Repr(_)
Repr(v) ==
    IF v.t = "dict" THEN
        <<"{">> \o Join([j \in DOMAIN v.kids |->
                           <<"'", v.keys[j], "'", ":", " ">> \o Repr(v.kids[j])],
                        <<",", " ">>) \o <<"}">>
    ELSE IF v.t = "list" THEN
        <<"[">> \o Join([j \in DOMAIN v.kids |-> Repr(v.kids[j])], <<",", " ">>) \o <<"]">>
    ELSE IF v.t = "int" THEN DigitsOf(v.n)
    ELSE IF v.t = "str" THEN <<"'">> \o v.s \o <<"'">>
    ELSE IF v.t = "none" THEN <<"None">>
    ELSE <<"<object>">>

\* str(v)
StrOf(v) == IF v.t = "str" THEN v.s ELSE Repr(v)

\* [i for i in x if i is not None]
RECURSIVE NotNone(_)
NotNone(kids) ==
    IF kids = <<>> THEN <<>>
    ELSE IF Head(kids).t = "none" THEN NotNone(Tail(kids))
    ELSE <<Head(kids)>> \o NotNone(Tail(kids))

ensure_list(x) ==
    IF x.t = "none" THEN <<>>
    ELSE IF x.t = "list" THEN LET kept == NotNone(x.kids)
                              IN [j \in DOMAIN kept |-> StrOf(kept[j])]
    ELSE <<StrOf(x)>>

\* parsed.get(key) of a mapping
DictGet(d, key) ==
    IF \E j \in DOMAIN d.keys : d.keys[j] = key
    THEN d.kids[CHOOSE j \in DOMAIN d.keys : d.keys[j] = key]
    ELSE PyNone

CategoryKeys == <<"Proteins", "Genes", "DNA", "RNA", "Meth-RNA">>

\* lines 289-293: ", ".join(ensure_list(parsed.get(key)))
cell_of(d, key) == Join(ensure_list(DictGet(d, key)), <<",", " ">>)

(***************************************************************************)
(* File names                                                              *)
(***************************************************************************)
DotPdf == <<".", "p", "d", "f">>

\* f.lower().endswith(".pdf")
is_pdf(f) ==
    /\ Len(f) >= Len(DotPdf)
    /\ SubSeq(Lower(f), Len(f) - Len(DotPdf) + 1, Len(f)) = DotPdf

\* os.path.splitext(fname)[0] for a name with one dot that is not its first character
RECURSIVE Stem(_)
Stem(f) ==
    IF f = <<>> THEN <<>>
    ELSE IF f[Len(f)] = "." THEN SubSeq(f, 1, Len(f) - 1)
    ELSE Stem(SubSeq(f, 1, Len(f) - 1))

\* sorted(names): insertion sort by Python's string order
RECURSIVE InsertName(_, _)
InsertName(sorted, f) ==
    IF sorted = <<>> THEN <<f>>
    ELSE IF StrLess(f, Head(sorted)) THEN <<f>> \o sorted
    ELSE <<Head(sorted)>> \o InsertName(Tail(sorted), f)
RECURSIVE SortedNames(_)
SortedNames(names) ==
    IF names = {} THEN <<>>
    ELSE LET f == CHOOSE g \in names : TRUE
         IN InsertName(SortedNames(names \ {f}), f)

\* line 239: [f for f in sorted(os.listdir(INPUT_FOLDER)) if f.lower().endswith(".pdf")]
pdf_file_list(names) == SortedNames({f \in names : is_pdf(f)})

(***************************************************************************)
(* Extraction run: article_info_extractor.main                             *)
(***************************************************************************)
MaxRuns == 2

\* names that may be present in INPUT_FOLDER
FileNames ==
    { <<"a", ".", "p", "d", "f">>,
      <<"B", ".", "P", "D", "F">>,
      <<"c", ".", "t", "x", "t">> }

\* embedded metadata title of a document (empty: none)
MetaTitle(f) == IF f = <<"B", ".", "P", "D", "F">> THEN <<"T", "i", "t", "l", "e">> ELSE <<>>

\* get_article_title: metadata title, else the file stem (never empty for a listed file)
get_article_title(f) ==
    IF Strip(MetaTitle(f)) # <<>> THEN Strip(MetaTitle(f))
    ELSE IF Stem(f) # <<>> THEN Stem(f)
    ELSE <<"U", "n", "t", "i", "t", "l", "e", "d">>

\* what the annotator may answer: message.content is a text or None
Responses ==
    { PyStr(<<"{", "\"Genes\"", ":", " ", "[", "\"TP53\"", "]", "}">>),
      PyStr(<<"json", " ", "{", "}">>),
      PyStr(<<"[", "\"TP53\"", "]">>),
      PyStr(<<"json">>),
      PyNone }

\* the stage of one document at which the environment makes an operation raise
Failures == {"none", "pdf_to_text", "md_write", "call_model", "txt_write", "csv_append"}

Header == [kind |-> "header", file |-> <<>>, title |-> <<>>,
           cells |-> [k \in DOMAIN CategoryKeys |-> <<>>]]
DataRow(f, d) == [kind |-> "row", file |-> f, title |-> get_article_title(f),
                  cells |-> [k \in DOMAIN CategoryKeys |-> cell_of(d, CategoryKeys[k])]]

\* line 227: write_header = not os.path.exists(CSV_FILE)
write_header_always(exists) == TRUE
write_header(exists) == ~exists

\* lines 242-304: the stage whose exception ends the iteration, or "ok".
\* call_model raises when the key is missing (lines 196-198); parsed.get raises
\* AttributeError when the parser returned something that is no mapping.
outcome_get_never_raises(fail, key, response) ==
    IF fail = "pdf_to_text" THEN "pdf_to_text"
    ELSE IF fail = "md_write" THEN "md_write"
    ELSE IF ~key \/ fail = "call_model" THEN "call_model"
    ELSE IF fail = "txt_write" THEN "txt_write"
    ELSE IF fail = "csv_append" THEN "csv_append"
    ELSE "ok"
outcome(fail, key, response) ==
    IF fail = "pdf_to_text" THEN "pdf_to_text"
    ELSE IF fail = "md_write" THEN "md_write"
    ELSE IF ~key \/ fail = "call_model" THEN "call_model"
    ELSE IF fail = "txt_write" THEN "txt_write"
    ELSE IF clean_and_parse_json(response).t # "dict" THEN "normalise"
    ELSE IF fail = "csv_append" THEN "csv_append"
    ELSE "ok"

\* line 303: except Exception catches whatever a stage raises
caught(stage) == TRUE

NoDoc == [file |-> <<>>, fail |-> "none", response |-> PyNone]

InitExtract ==
    /\ listing = {} /\ api_key = FALSE /\ pc = "idle" /\ pdf_files = <<>>
    /\ idx = 1 /\ run = 0 /\ csv_exists = FALSE /\ csv = <<>>
    /\ md_files = {} /\ txt_files = {} /\ attempted = <<>> /\ last = NoDoc

\* lines 224-239: a run starts; the folder content and the environment are its inputs
StartRun ==
    /\ pc \in {"idle", "done"}
    /\ run < MaxRuns
    /\ \E names \in SUBSET FileNames, key \in BOOLEAN :
        /\ listing' = names
        /\ api_key' = key
        /\ pdf_files' = pdf_file_list(names)
    /\ csv' = IF write_header(csv_exists) THEN Append(csv, Header) ELSE csv
    /\ csv_exists' = TRUE
    /\ idx' = 1
    /\ attempted' = <<>>
    /\ last' = NoDoc
    /\ run' = run + 1
    /\ pc' = "loop"
    /\ UNCHANGED <<md_files, txt_files>>

\* lines 240-304: one iteration of the for loop
ProcessDocument ==
    /\ pc = "loop"
    /\ idx <= Len(pdf_files)
    /\ \E fail \in Failures, response \in Responses :
        LET fname == pdf_files[idx]
            stage == outcome(fail, api_key, response)
        IN /\ attempted' = Append(attempted, fname)
           /\ last' = [file |-> fname, fail |-> fail, response |-> response]
           /\ md_files' = IF stage \in {"pdf_to_text", "md_write"}
                          THEN md_files ELSE md_files \cup {Stem(fname)}
           /\ txt_files' = IF stage \in {"pdf_to_text", "md_write", "call_model", "txt_write"}
                           THEN txt_files ELSE txt_files \cup {Stem(fname)}
           /\ csv' = IF stage = "ok"
                     THEN Append(csv, DataRow(fname, clean_and_parse_json(response)))
                     ELSE csv
           /\ pc' = IF stage = "ok" \/ caught(stage) THEN "loop" ELSE "aborted"
    /\ idx' = idx + 1
    /\ UNCHANGED <<listing, api_key, pdf_files, run, csv_exists>>

\* the for loop is exhausted and main returns
EndRun ==
    /\ pc = "loop"
    /\ idx > Len(pdf_files)
    /\ pc' = "done"
    /\ UNCHANGED <<listing, api_key, pdf_files, idx, run, csv_exists, csv,
                   md_files, txt_files, attempted, last>>

(***************************************************************************)
(* The table as the graph builder and the statistics aggregator load it    *)
(***************************************************************************)
MaxRows == 2

\* a missing cell (pandas NaN); every other cell is a string
NaN == <<"NaN">>

\* str(value), .astype(str)
CellStr(value) == IF value = NaN THEN <<"n", "a", "n">> ELSE value

\* the category columns the model carries, in the order both programs visit them
Categories == <<"Proteins", "Genes">>
ColUpper(col) == IF col = "Proteins" THEN "PROTEINS" ELSE "GENES"

TP53 == <<"T", "P", "5", "3">>
BRCA1 == <<"B", "R", "C", "A", "1">>
tp53 == <<"t", "p", "5", "3">>
Tp53 == <<"T", "p", "5", "3">>

Titles == { <<"D", "o", "c", " ", "A">>, <<"D", "o", "c", " ", "B">>, <<" ">> }

\* cells of the Genes column
GeneCells ==
    { NaN,
      TP53 \o <<",", " ">> \o BRCA1,
      tp53,
      Tp53 \o <<";", " ">> \o tp53 \o <<" ", ",">> \o tp53,
      BRCA1 \o <<"/">> \o TP53,
      <<" ", ",", " ">>,
      <<"-", ",", " ">> \o Tp53 }

\* cells of the Proteins column
ProteinCells == { NaN, tp53 }

TableRows ==
    { [title |-> t, cells |-> <<p, g>>] : t \in Titles, p \in ProteinCells, g \in GeneCells }

Tables == UNION {[1..k -> TableRows] : k \in 0..MaxRows}

(***************************************************************************)
(* Graph builder: article_info_network_generator.py                        *)
(***************************************************************************)
\* line 27: SPLIT_PATTERN, a run of comma, semicolon, pipe, newline, slash
SPLIT_PATTERN == {",", ";", "|", "\n", "/"}

\* lines 47-57: normalise, uppercase and deduplicate the parts, order preserved
RECURSIVE UpperItems(_, _)
UpperItems(parts, items) ==
    IF parts = <<>> THEN items
    ELSE LET t == Join(Words(Strip(Head(parts))), <<" ">>)
             u == Upper(t)
         IN IF t = <<>> THEN UpperItems(Tail(parts), items)
            ELSE IF \E j \in DOMAIN items : items[j] = u
                 THEN UpperItems(Tail(parts), items)
                 ELSE UpperItems(Tail(parts), Append(items, u))

parse_items_to_upper(value) ==
    LET s == Strip(CellStr(value))
    IN IF s = <<>> \/ Lower(s) = <<"n", "a", "n">> THEN <<>>
       ELSE UpperItems(SplitRuns(s, SPLIT_PATTERN), <<>>)

ArticleId(article) == <<"ARTICLE", article>>
EntityId(col, item) == <<ColUpper(col), item>>

\* lines 109-111: the article node is added unless seen
add_article_always(g, article) ==
    [g EXCEPT !.nodes = Append(g.nodes, [id |-> ArticleId(article), label |-> article,
                                          shape |-> "box"]),
              !.seen_nodes = g.seen_nodes \cup {ArticleId(article)}]
add_article(g, article) ==
    IF ArticleId(article) \notin g.seen_nodes
    THEN [g EXCEPT !.nodes = Append(g.nodes, [id |-> ArticleId(article),
                                               label |-> article, shape |-> "box"]),
                   !.seen_nodes = g.seen_nodes \cup {ArticleId(article)}]
    ELSE g

\* lines 114-123: entity node and edge of one item, each added unless seen
add_item(g, col, article, item) ==
    LET g1 == IF EntityId(col, item) \notin g.seen_nodes
              THEN [g EXCEPT !.nodes = Append(g.nodes, [id |-> EntityId(col, item),
                                                         label |-> item,
                                                         shape |-> "ellipse"]),
                             !.seen_nodes = g.seen_nodes \cup {EntityId(col, item)}]
              ELSE g
        edge_key == <<ArticleId(article), EntityId(col, item)>>
    IN IF edge_key \notin g1.seen_edges
       THEN [g1 EXCEPT !.edges = Append(g1.edges, edge_key),
                       !.seen_edges = g1.seen_edges \cup {edge_key}]
       ELSE g1

RECURSIVE add_items(_, _, _, _)
add_items(g, col, article, items) ==
    IF items = <<>> THEN g
    ELSE add_items(add_item(g, col, article, Head(items)), col, article, Tail(items))

\* lines 104-105: a row without items is skipped
skip_row_never(items) == FALSE
skip_row(items) == items = <<>>

\* lines 95-123: one row of df.iterrows()
graph_row(g, col, row) ==
    LET article == Strip(CellStr(row.title))
        items == parse_items_to_upper(row.cells[CHOOSE k \in DOMAIN Categories :
                                                   Categories[k] = col])
    IN IF article = <<>> THEN g
       ELSE IF skip_row(items) THEN g
       ELSE add_items(add_article(g, article), col, article, items)

CurrentNet ==
    [seen_nodes |-> seen_nodes, seen_edges |-> seen_edges,
     nodes |-> net_nodes, edges |-> net_edges]

BuildGraphRow ==
    /\ prog = "graph" /\ tpc = "rows"
    /\ rowi <= Len(df)
    /\ LET g == graph_row(CurrentNet, Categories[cat], df[rowi])
       IN /\ seen_nodes' = g.seen_nodes
          /\ seen_edges' = g.seen_edges
          /\ net_nodes' = g.nodes
          /\ net_edges' = g.edges
    /\ rowi' = rowi + 1
    /\ UNCHANGED <<prog, df, case_insensitive, tpc, cat, graphs, sheets>>

\* line 125 and lines 140-143: the graph is saved and main goes to the next category
SaveGraph ==
    /\ prog = "graph" /\ tpc = "rows"
    /\ rowi > Len(df)
    /\ graphs' = [graphs EXCEPT ![Categories[cat]] =
                    [saved |-> TRUE, nodes |-> net_nodes, edges |-> net_edges]]
    /\ seen_nodes' = {} /\ seen_edges' = {} /\ net_nodes' = <<>> /\ net_edges' = <<>>
    /\ rowi' = 1
    /\ IF cat < Len(Categories)
       THEN cat' = cat + 1 /\ tpc' = "rows"
       ELSE cat' = cat /\ tpc' = "done"
    /\ UNCHANGED <<prog, df, case_insensitive, sheets>>

(***************************************************************************)
(* Statistics aggregator: code/article_info_stat_generator.py              *)
(***************************************************************************)
\* line 16: EMPTY_LIKE
EMPTY_LIKE ==
    { <<>>, <<"n", "a", "n">>, <<"n", "o", "n", "e">>, <<"n", "u", "l", "l">>,
      <<"[", "]">>, <<"{", "}">>, <<"n", "a">>, <<"n", "/", "a">>, <<"-">>, <<"-", "-">> }

\* line 17: _SPLIT_RE, one semicolon or comma
STAT_SPLIT == {";", ","}

\* re.sub(r"\s+", " ", t): every whitespace run becomes one space
RECURSIVE CollapseWs(_)
CollapseWs(t) ==
    IF t = <<>> THEN <<>>
    ELSE IF IsSpace(Head(t))
         THEN IF Len(t) > 1 /\ IsSpace(t[2]) THEN CollapseWs(Tail(t))
              ELSE <<" ">> \o CollapseWs(Tail(t))
         ELSE <<Head(t)>> \o CollapseWs(Tail(t))

StartsWithAny(t, cs) == t # <<>> /\ t[1] \in cs
EndsWithAny(t, cs) == t # <<>> /\ t[Len(t)] \in cs

\* lines 28-36
clean_token(tok) ==
    LET t == Strip(tok)
        wrapped ==
            \/ StartsWithAny(t, {"'", "\""}) /\ EndsWithAny(t, {"'", "\""})
            \/ StartsWithAny(t, {"["}) /\ EndsWithAny(t, {"]"})
            \/ StartsWithAny(t, {"{"}) /\ EndsWithAny(t, {"}"})
            \/ StartsWithAny(t, {"("}) /\ EndsWithAny(t, {")"})
        t1 == IF wrapped THEN Strip(SubSeq(t, 2, Len(t) - 1)) ELSE t
    IN Strip(CollapseWs(t1))

\* lines 39-40
key_for_case_sensitive(tok, ci) == Strip(tok)
key_for(tok, ci) == IF ci THEN Strip(Lower(tok)) ELSE Strip(tok)

\* a Counter: entries [key, n] in insertion order
CounterHas(c, k) == \E j \in DOMAIN c : c[j].key = k
CounterInc(c, k) ==
    IF CounterHas(c, k)
    THEN [j \in DOMAIN c |-> IF c[j].key = k THEN [key |-> k, n |-> c[j].n + 1] ELSE c[j]]
    ELSE Append(c, [key |-> k, n |-> 1])

\* casing_tracker: entries [key, names], names a Counter of the spellings seen
TrackerInc(tr, k, name) ==
    IF \E j \in DOMAIN tr : tr[j].key = k
    THEN [j \in DOMAIN tr |->
            IF tr[j].key = k THEN [key |-> k, names |-> CounterInc(tr[j].names, name)]
            ELSE tr[j]]
    ELSE Append(tr, [key |-> k, names |-> CounterInc(<<>>, name)])

\* Counter.most_common(1)[0][0]: the first entry with the largest count
most_common_last(c) ==
    c[CHOOSE j \in DOMAIN c :
        /\ \A i \in DOMAIN c : c[i].n <= c[j].n
        /\ \A i \in DOMAIN c : i > j => c[i].n < c[j].n].key
most_common(c) ==
    c[CHOOSE j \in DOMAIN c :
        /\ \A i \in DOMAIN c : c[i].n <= c[j].n
        /\ \A i \in DOMAIN c : i < j => c[i].n < c[j].n].key

\* lines 49-55: the parts of one cell
RECURSIVE count_parts(_, _, _)
count_parts(acc, parts, ci) ==
    IF parts = <<>> THEN acc
    ELSE LET name == clean_token(Head(parts))
         IN IF name = <<>> \/ Lower(name) \in EMPTY_LIKE
            THEN count_parts(acc, Tail(parts), ci)
            ELSE LET k == key_for(name, ci)
                 IN count_parts([counts |-> CounterInc(acc.counts, k),
                                 casing_tracker |-> TrackerInc(acc.casing_tracker, k, name)],
                                Tail(parts), ci)

\* lines 47-55: the cells of the column, missing ones dropped
RECURSIVE count_cells(_, _, _)
count_cells(acc, series, ci) ==
    IF series = <<>> THEN acc
    ELSE IF Head(series) = NaN THEN count_cells(acc, Tail(series), ci)
    ELSE count_cells(count_parts(acc, SplitEach(CellStr(Head(series)), STAT_SPLIT), ci),
                     Tail(series), ci)

\* lines 43-60: counts and rep_map (entries [key, name], in key insertion order)
extract_items(series, ci) ==
    LET acc == count_cells([counts |-> <<>>, casing_tracker |-> <<>>], series, ci)
    IN [counts |-> acc.counts,
        rep_map |-> [j \in DOMAIN acc.casing_tracker |->
                       [key |-> acc.casing_tracker[j].key,
                        name |-> most_common(acc.casing_tracker[j].names)]]]

RepGet(rep_map, k) ==
    IF \E j \in DOMAIN rep_map : rep_map[j].key = k
    THEN rep_map[CHOOSE j \in DOMAIN rep_map : rep_map[j].key = k].name
    ELSE k

\* line 91: the sort key (-count, label.lower()) of x is less than that of y
sort_key_less_by_label_only(x, y) == StrLess(Lower(x.name), Lower(y.name))
sort_key_less(x, y) ==
    \/ x.n > y.n
    \/ x.n = y.n /\ StrLess(Lower(x.name), Lower(y.name))

\* list.sort: stable, an element goes before the first one with a greater key
RECURSIVE StableInsert(_, _)
StableInsert(sorted, x) ==
    IF sorted = <<>> THEN <<x>>
    ELSE IF sort_key_less(x, Head(sorted)) THEN <<x>> \o sorted
    ELSE <<Head(sorted)>> \o StableInsert(Tail(sorted), x)
RECURSIVE StableSort(_)
StableSort(rows) ==
    IF rows = <<>> THEN <<>>
    ELSE StableInsert(StableSort(SubSeq(rows, 1, Len(rows) - 1)), rows[Len(rows)])

\* the column of a category, in row order
Series(table, col) ==
    [j \in DOMAIN table |->
        table[j].cells[CHOOSE k \in DOMAIN Categories : Categories[k] = col]]

\* lines 81-94: the sheet of one category
frequency_rows(table, col, ci) ==
    LET r == extract_items(Series(table, col), ci)
    IN StableSort([j \in DOMAIN r.counts |->
                     [name |-> RepGet(r.rep_map, r.counts[j].key), n |-> r.counts[j].n]])

\* lines 80-94: one iteration of the loop over CATEGORIES
StatCategory ==
    /\ prog = "stat" /\ tpc = "rows"
    /\ sheets' = [sheets EXCEPT ![Categories[cat]] =
                    [written |-> TRUE,
                     rows |-> frequency_rows(df, Categories[cat], case_insensitive)]]
    /\ IF cat < Len(Categories)
       THEN cat' = cat + 1 /\ tpc' = "rows"
       ELSE cat' = cat /\ tpc' = "done"
    /\ UNCHANGED <<prog, df, case_insensitive, rowi, seen_nodes, seen_edges,
                   net_nodes, net_edges, graphs>>

NoGraph == [saved |-> FALSE, nodes |-> <<>>, edges |-> <<>>]
NoSheet == [written |-> FALSE, rows |-> <<>>]
CategorySet == {Categories[k] : k \in DOMAIN Categories}

InitTable ==
    /\ prog \in {"graph", "stat"}
    /\ df \in Tables
    /\ case_insensitive \in (IF prog = "stat" THEN BOOLEAN ELSE {FALSE})
    /\ tpc = "rows" /\ cat = 1 /\ rowi = 1
    /\ seen_nodes = {} /\ seen_edges = {} /\ net_nodes = <<>> /\ net_edges = <<>>
    /\ graphs = [c \in CategorySet |-> NoGraph]
    /\ sheets = [c \in CategorySet |-> NoSheet]

(***************************************************************************)
(* The parser on its own: any response, then the caller's reads            *)
(***************************************************************************)
MaxRespLen == 4

InputSymbols == {"FENCE", "json", "{", "}", "[", "]", "\"Genes\"", ":", "1", " "}

\* responses longer than MaxRespLen that the documentation names
NamedTexts ==
    { <<"FENCE", "json", " ", "{", "\"Genes\"", ":", " ", "[", "\"TP53\"", "]", "}", " ", "FENCE">>,
      <<"FENCE", " ", "{", "\"Genes\"", ":", " ", "null", "}", " ", "FENCE">>,
      <<"json", " ", "{", "\"Genes\"", ":", " ", "[", "\"TP53\"", ",", " ", "null", "]", "}", " ", "json">>,
      <<"FENCE", "json", " ", "[", "1", ",", " ", "1", "]", " ", "FENCE">> }

\* responses that are no text
NonTexts ==
    { EmptyDict,
      PyDict(<<"Genes">>, <<PyList(<<PyStr(<<"TP53">>)>>)>>),
      PyDict(<<"Genes">>, <<PyObject>>),
      PyList(<<>>),
      PyList(<<PyInt(1), PyStr(<<"TP53">>)>>),
      PyList(<<PyObject>>),
      PyInt(11),
      PyNone,
      PyObject }

ParseInputs ==
    {PyStr(s) : s \in StringsUpTo(InputSymbols, MaxRespLen) \cup NamedTexts} \cup NonTexts

InitParse == raw \in ParseInputs /\ parsed = PyNone /\ ppc = "new"

\* line 286: parsed = clean_and_parse_json(raw_response)
Parse ==
    /\ ppc = "new"
    /\ parsed' = clean_and_parse_json(raw)
    /\ ppc' = "parsed"
    /\ UNCHANGED raw

\* lines 289-293: the caller reads the five keys; .get raises on what is no mapping
ReadCategories ==
    /\ ppc = "parsed"
    /\ ppc' = IF parsed.t = "dict" THEN "row" ELSE "raised"
    /\ UNCHANGED <<raw, parsed>>

(***************************************************************************)
(* cap_words on its own                                                    *)
(***************************************************************************)
MaxTextLen == 4
MaxCap == 3

CapAlphabet == {"a", "b", " ", "\n"}

InitCap ==
    /\ cap_text \in StringsUpTo(CapAlphabet, MaxTextLen)
    /\ cap_n \in 0..MaxCap /\ cap_m \in 0..MaxCap
    /\ cap_r1 = <<>> /\ cap_r2 = <<>> /\ cpc = "start"

CapFirst ==
    /\ cpc = "start"
    /\ cap_r1' = cap_words(cap_text, cap_n)
    /\ cpc' = "once"
    /\ UNCHANGED <<cap_text, cap_n, cap_m, cap_r2>>

CapSecond ==
    /\ cpc = "once"
    /\ cap_r2' = cap_words(cap_r1, cap_m)
    /\ cpc' = "twice"
    /\ UNCHANGED <<cap_text, cap_n, cap_m, cap_r1>>

(***************************************************************************)
(* Specifications: each program runs on its own                            *)
(***************************************************************************)
ExtractOff ==
    /\ listing = {} /\ api_key = FALSE /\ pc = "off" /\ pdf_files = <<>>
    /\ idx = 1 /\ run = 0 /\ csv_exists = FALSE /\ csv = <<>>
    /\ md_files = {} /\ txt_files = {} /\ attempted = <<>> /\ last = NoDoc
ParseOff == raw = PyNone /\ parsed = PyNone /\ ppc = "off"
TableOff ==
    /\ prog = "off" /\ df = <<>> /\ case_insensitive = FALSE
    /\ tpc = "off" /\ cat = 1 /\ rowi = 1
    /\ seen_nodes = {} /\ seen_edges = {} /\ net_nodes = <<>> /\ net_edges = <<>>
    /\ graphs = [c \in CategorySet |-> NoGraph]
    /\ sheets = [c \in CategorySet |-> NoSheet]
CapOff ==
    /\ cap_text = <<>> /\ cap_n = 0 /\ cap_m = 0
    /\ cap_r1 = <<>> /\ cap_r2 = <<>> /\ cpc = "off"

TokenOff == tok_in = <<>> /\ tok_out = <<>> /\ kpc = "off"

Init == InitExtract /\ ParseOff /\ TableOff /\ CapOff /\ TokenOff
Next ==
    \/ StartRun /\ UNCHANGED <<parse_vars, table_vars, cap_vars, token_vars>>
    \/ ProcessDocument /\ UNCHANGED <<parse_vars, table_vars, cap_vars, token_vars>>
    \/ EndRun /\ UNCHANGED <<parse_vars, table_vars, cap_vars, token_vars>>
Spec == Init /\ [][Next]_vars

InitParseOnly == ExtractOff /\ InitParse /\ TableOff /\ CapOff /\ TokenOff
NextParse ==
    \/ Parse /\ UNCHANGED <<extract_vars, table_vars, cap_vars, token_vars>>
    \/ ReadCategories /\ UNCHANGED <<extract_vars, table_vars, cap_vars, token_vars>>
SpecParse == InitParseOnly /\ [][NextParse]_vars

InitTableOnly == ExtractOff /\ ParseOff /\ InitTable /\ CapOff /\ TokenOff
NextTable ==
    \/ BuildGraphRow /\ UNCHANGED <<extract_vars, parse_vars, cap_vars, token_vars>>
    \/ SaveGraph /\ UNCHANGED <<extract_vars, parse_vars, cap_vars, token_vars>>
    \/ StatCategory /\ UNCHANGED <<extract_vars, parse_vars, cap_vars, token_vars>>
SpecTable == InitTableOnly /\ [][NextTable]_vars

InitCapOnly == ExtractOff /\ ParseOff /\ TableOff /\ InitCap /\ TokenOff
NextCap ==
    \/ CapFirst /\ UNCHANGED <<extract_vars, parse_vars, table_vars, token_vars>>
    \/ CapSecond /\ UNCHANGED <<extract_vars, parse_vars, table_vars, token_vars>>
SpecCap == InitCapOnly /\ [][NextCap]_vars

\* the loop of a started run keeps running until main returns
RunStep == (ProcessDocument \/ EndRun) /\ UNCHANGED <<parse_vars, table_vars, cap_vars, token_vars>>
FairSpec == Init /\ [][Next]_vars /\ WF_vars(RunStep)

(***************************************************************************)
(* Properties of the extraction run                                        *)
(***************************************************************************)
IsPrefix(s, t) == Len(s) <= Len(t) /\ SubSeq(t, 1, Len(s)) = s

\* every stage of the document recorded in l went through: nothing was made to
\* fail, the annotator could be called, and the response normalised to a mapping
AllStagesSucceeded(l, key) ==
    /\ l.fail = "none"
    /\ key
    /\ clean_and_parse_json(l.response).t = "dict"

C1_Order ==
    pc \in {"loop", "done", "aborted"} =>
        /\ pc # "aborted"
        /\ {pdf_files[k] : k \in DOMAIN pdf_files} = {f \in listing : is_pdf(f)}
        /\ \A j, k \in DOMAIN pdf_files : j < k => StrLess(pdf_files[j], pdf_files[k])
        /\ idx <= Len(pdf_files) + 1
        /\ attempted = SubSeq(pdf_files, 1, idx - 1)
        /\ (pc = "done" => attempted = pdf_files)

C1_Rows ==
    idx' = idx + 1 =>
        IF AllStagesSucceeded(last', api_key)
        THEN /\ Len(csv') = Len(csv) + 1
             /\ IsPrefix(csv, csv')
             /\ csv'[Len(csv')].kind = "row"
             /\ csv'[Len(csv')].file = pdf_files[idx]
        ELSE csv' = csv

\* C1: in one run, whatever subset of the documents fails at whatever stage, every
\* document of the batch is attempted exactly once in sorted file-name order, the
\* run reaches its end, and the table gains exactly one row for each document whose
\* stages all succeeded and none for a document that failed.
C1_FailureIsolation ==
    /\ []C1_Order
    /\ [][C1_Rows]_vars
    /\ (pc = "loop") ~> (pc = "done")

\* a finished first run over two documents, the first with a row, the second failed
C1_Witness ==
    /\ pc = "done" /\ run = 1
    /\ Len(attempted) = 2
    /\ last.fail = "txt_write"
    /\ Len(csv) = 2 /\ csv[2].file = attempted[1]

C2_HeaderFirst ==
    /\ ~csv_exists => csv = <<>>
    /\ csv_exists =>
        /\ csv # <<>>
        /\ csv[1] = Header
        /\ \A k \in 2..Len(csv) : csv[k].kind = "row"

\* C2: starting from no table, the table is append-only: the header is written once,
\* by the run that finds no table, and is the first row; every step leaves the rows
\* already written unchanged and only adds rows after them.
C2_AppendOnly ==
    /\ []C2_HeaderFirst
    /\ [][IsPrefix(csv, csv')]_vars

\* a second run over the same document has added a duplicate of the first run's row
C2_Witness ==
    /\ run = 2 /\ pc = "done"
    /\ Len(csv) = 3
    /\ csv[2] = csv[3]

\* C3: with the credential missing the run stops before any document is processed:
\* no document is attempted, no per-document file is written, no row is appended.
C3_MissingKeyIsFatal ==
    [][(pc = "loop" /\ ~api_key) =>
         /\ attempted' = attempted
         /\ md_files' = md_files
         /\ txt_files' = txt_files
         /\ csv' = csv]_vars

(***************************************************************************)
(* Properties of the tolerant parser                                       *)
(***************************************************************************)
\* some decoding attempt of the parser, on the text or on its brace-delimited part,
\* yields a mapping
DecodesToMapping(text) ==
    LET t == strip_fence(SymStrip(text))
        direct == json_loads(t)
        inner == json_loads(SubSeq(t, FindOpen(t), RFindClose(t)))
    IN \/ direct.ok /\ direct.val.t = "dict"
       \/ ~direct.ok /\ FindOpen(t) # 0 /\ RFindClose(t) > FindOpen(t)
            /\ inner.ok /\ inner.val.t = "dict"

\* C4: for every response the parser returns a mapping and does not raise: a mapping
\* is returned unchanged, what cannot be parsed as a mapping gives the empty mapping,
\* and the caller can read the category keys from the result.
C4_ParserTotal ==
    ppc \in {"parsed", "row", "raised"} =>
        /\ parsed.t = "dict"
        /\ (raw.t = "dict" => parsed = raw)
        /\ (raw.t = "str" /\ ~DecodesToMapping(raw.s) => parsed = EmptyDict)
        /\ (raw.t \notin {"str", "dict"} => parsed = EmptyDict)
        /\ ppc # "raised"

(***************************************************************************)
(* Properties of the graph builder and the statistics aggregator           *)
(***************************************************************************)
DocA == <<"D", "o", "c", " ", "A">>
DocB == <<"D", "o", "c", " ", "B">>
GenesAt == CHOOSE k \in DOMAIN Categories : Categories[k] = "Genes"

\* the two-row table of the end-to-end scenario
IsScenario(table) ==
    /\ Len(table) = 2
    /\ table[1].title = DocA /\ table[1].cells[GenesAt] = TP53 \o <<",", " ">> \o BRCA1
    /\ table[2].title = DocB /\ table[2].cells[GenesAt] = tp53

NodeIds(nodes) == {nodes[k].id : k \in DOMAIN nodes}

\* C5 as stated: on the scenario table the Genes graph has 3 nodes and 2 edges and the
\* Genes frequency report is the single entry (TP53, 2), or (tp53, 2).
C5_ScenarioAsStated ==
    IsScenario(df) =>
        /\ graphs["Genes"].saved =>
              Len(graphs["Genes"].nodes) = 3 /\ Len(graphs["Genes"].edges) = 2
        /\ sheets["Genes"].written =>
              sheets["Genes"].rows \in {<<[name |-> TP53, n |-> 2]>>,
                                        <<[name |-> tp53, n |-> 2]>>}

\* C5 amended: on the scenario table the Genes graph has 4 nodes, the documents Doc A
\* and Doc B and the entities TP53 and BRCA1 (tp53 falls on TP53), and 3 edges; the
\* Genes frequency report is (TP53, 2), (BRCA1, 1) in case-insensitive mode, and
\* (BRCA1, 1), (TP53, 1), (tp53, 1) in the case-sensitive mode the code ships with.
C5_Scenario ==
    IsScenario(df) =>
        /\ graphs["Genes"].saved =>
              /\ NodeIds(graphs["Genes"].nodes) =
                    {ArticleId(DocA), ArticleId(DocB),
                     EntityId("Genes", TP53), EntityId("Genes", BRCA1)}
              /\ Len(graphs["Genes"].nodes) = 4
              /\ graphs["Genes"].edges =
                    << <<ArticleId(DocA), EntityId("Genes", TP53)>>,
                       <<ArticleId(DocA), EntityId("Genes", BRCA1)>>,
                       <<ArticleId(DocB), EntityId("Genes", TP53)>> >>
        /\ sheets["Genes"].written /\ case_insensitive =>
              sheets["Genes"].rows = <<[name |-> TP53, n |-> 2], [name |-> BRCA1, n |-> 1]>>
        /\ sheets["Genes"].written /\ ~case_insensitive =>
              sheets["Genes"].rows = <<[name |-> BRCA1, n |-> 1], [name |-> TP53, n |-> 1],
                                       [name |-> tp53, n |-> 1]>>

\* either program has finished on the scenario table
C5_Witness == IsScenario(df) /\ tpc = "done"

\* a document node of the graph has an edge to an entity node of the graph
DocumentsConnected(nodes, edges) ==
    \A k \in DOMAIN nodes :
        nodes[k].shape = "box" =>
            \E e \in DOMAIN edges, j \in DOMAIN nodes :
                /\ edges[e][1] = nodes[k].id
                /\ edges[e][2] = nodes[j].id
                /\ nodes[j].shape = "ellipse"

C6_Connected ==
    /\ DocumentsConnected(net_nodes, net_edges)
    /\ \A c \in CategorySet : DocumentsConnected(graphs[c].nodes, graphs[c].edges)

C6_EmptyRowSkipped ==
    (/\ prog = "graph" /\ tpc = "rows" /\ rowi <= Len(df) /\ rowi' = rowi + 1
     /\ parse_items_to_upper(df[rowi].cells[cat]) = <<>>)
    => UNCHANGED <<net_nodes, net_edges, seen_nodes, seen_edges>>

\* C6: a row whose cell for the category tokenizes to no entity leaves that category's
\* graph unchanged, whatever the row adds to another category's graph; hence after every
\* row every document node of the graph has an edge to an entity node.
C6_NoIsolatedDocument ==
    /\ []C6_Connected
    /\ [][C6_EmptyRowSkipped]_vars

\* a document that is in the Proteins graph and, its Genes cell holding no entity, not
\* in the non-empty Genes graph
C6_Witness ==
    /\ tpc = "done" /\ prog = "graph"
    /\ graphs["Genes"].nodes # <<>>
    /\ \E r \in DOMAIN df :
        /\ df[r].cells[GenesAt] # NaN
        /\ parse_items_to_upper(df[r].cells[GenesAt]) = <<>>
        /\ ArticleId(Strip(df[r].title)) \in NodeIds(graphs["Proteins"].nodes)
        /\ ArticleId(Strip(df[r].title)) \notin NodeIds(graphs["Genes"].nodes)

\* the (document, entity) pairs of rows before row r, each with the items of its own row
MentionPairs(table, c, r) ==
    UNION { { <<ArticleId(Strip(CellStr(table[k].title))),
                EntityId(Categories[c], parse_items_to_upper(table[k].cells[c])[i])>> :
              i \in DOMAIN parse_items_to_upper(table[k].cells[c]) } :
            k \in {j \in 1..(r - 1) : Strip(CellStr(table[j].title)) # <<>>} }

NoDuplicates(nodes, edges) ==
    /\ \A j, k \in DOMAIN nodes : nodes[j].id = nodes[k].id => j = k
    /\ \A j, k \in DOMAIN nodes :
          nodes[j].shape = nodes[k].shape /\ nodes[j].label = nodes[k].label => j = k
    /\ \A j, k \in DOMAIN edges : edges[j] = edges[k] => j = k
    /\ \A e \in DOMAIN edges :
          /\ \E k \in DOMAIN nodes : nodes[k].id = edges[e][1] /\ nodes[k].shape = "box"
          /\ \E k \in DOMAIN nodes : nodes[k].id = edges[e][2] /\ nodes[k].shape = "ellipse"

\* C7: the graph of a category never holds a duplicate: one document node per title,
\* one entity node per canonical label, exactly one edge per (document, entity) pair
\* mentioned so far, and every edge joins a document node and an entity node of the graph.
C7_NoDuplicates ==
    /\ NoDuplicates(net_nodes, net_edges)
    /\ \A c \in CategorySet : NoDuplicates(graphs[c].nodes, graphs[c].edges)
    /\ (prog = "graph" /\ tpc = "rows") =>
          \A pr \in MentionPairs(df, cat, rowi) :
              Cardinality({e \in DOMAIN net_edges : net_edges[e] = pr}) = 1
    /\ (prog = "graph" /\ tpc = "rows") =>
          {net_edges[e] : e \in DOMAIN net_edges} = MentionPairs(df, cat, rowi)

\* two rows of one title that both mention TP53, in different casing, are in the graph
C7_Witness ==
    /\ prog = "graph" /\ tpc = "rows" /\ Categories[cat] = "Genes" /\ rowi = 3
    /\ df[1].title = df[2].title
    /\ df[1].cells[GenesAt] = TP53 \o <<",", " ">> \o BRCA1
    /\ df[2].cells[GenesAt] = Tp53 \o <<";", " ">> \o tp53 \o <<" ", ",">> \o tp53
    /\ Len(net_edges) = 2

\* C8: the frequency table of every category is sorted by descending count, rows of
\* equal count in ascending order of the case-insensitive label.
C8_Ranked ==
    \A c \in CategorySet :
        LET rows == sheets[c].rows
        IN \A j, k \in DOMAIN rows :
              j < k =>
                 /\ rows[j].n >= rows[k].n
                 /\ rows[j].n = rows[k].n => ~StrLess(Lower(rows[k].name), Lower(rows[j].name))

\* a written table with rows of different count and rows of equal count whose labels differ
C8_Witness ==
    \E c \in CategorySet :
        LET rows == sheets[c].rows
        IN /\ sheets[c].written
           /\ \E j, k \in DOMAIN rows : rows[j].n > rows[k].n
           /\ \E j, k \in DOMAIN rows :
                 j < k /\ rows[j].n = rows[k].n /\ Lower(rows[j].name) # Lower(rows[k].name)

\* the tokens of a column that the aggregator counts, trimmed and unwrapped, in order
RECURSIVE CountedOf(_)
CountedOf(parts) ==
    IF parts = <<>> THEN <<>>
    ELSE LET name == clean_token(Head(parts))
         IN IF name = <<>> \/ Lower(name) \in EMPTY_LIKE THEN CountedOf(Tail(parts))
            ELSE <<name>> \o CountedOf(Tail(parts))
RECURSIVE CountedTokens(_)
CountedTokens(series) ==
    IF series = <<>> THEN <<>>
    ELSE IF Head(series) = NaN THEN CountedTokens(Tail(series))
    ELSE CountedOf(SplitEach(Head(series), STAT_SPLIT)) \o CountedTokens(Tail(series))

Occurrences(toks, spelling) == Cardinality({i \in DOMAIN toks : toks[i] = spelling})
FirstSeen(toks, spelling) ==
    CHOOSE i \in DOMAIN toks : toks[i] = spelling /\ \A j \in 1..(i - 1) : toks[j] # spelling

\* spelling is the most frequent spelling of its key among toks, the first seen of those
IsDisplayLabel(toks, spelling) ==
    /\ \E i \in DOMAIN toks : toks[i] = spelling
    /\ \A i \in DOMAIN toks :
          Lower(toks[i]) = Lower(spelling) /\ toks[i] # spelling =>
             \/ Occurrences(toks, toks[i]) < Occurrences(toks, spelling)
             \/ /\ Occurrences(toks, toks[i]) = Occurrences(toks, spelling)
                /\ FirstSeen(toks, spelling) < FirstSeen(toks, toks[i])

\* C9: in case-insensitive mode the tokens of a column that differ only in letter case
\* and surrounding whitespace share one key; its count is the number of such tokens in
\* the whole column, repeats inside a cell included, and its label is the spelling that
\* occurred most often, the first seen among equally frequent ones.
C9_Canonical ==
    \A c \in CategorySet :
        (sheets[c].written /\ case_insensitive) =>
            LET toks == CountedTokens(Series(df, c))
                r == extract_items(Series(df, c), TRUE)
                rows == sheets[c].rows
            IN /\ {r.counts[j].key : j \in DOMAIN r.counts} =
                     {Lower(toks[i]) : i \in DOMAIN toks}
               /\ \A j, k \in DOMAIN r.counts : r.counts[j].key = r.counts[k].key => j = k
               /\ \A j \in DOMAIN r.counts :
                     /\ r.counts[j].n =
                           Cardinality({i \in DOMAIN toks : Lower(toks[i]) = r.counts[j].key})
                     /\ Lower(RepGet(r.rep_map, r.counts[j].key)) = r.counts[j].key
                     /\ IsDisplayLabel(toks, RepGet(r.rep_map, r.counts[j].key))
               /\ Len(rows) = Len(r.counts)
               /\ \A j \in DOMAIN r.counts :
                     \E k \in DOMAIN rows :
                        /\ rows[k].name = RepGet(r.rep_map, r.counts[j].key)
                        /\ rows[k].n = r.counts[j].n

\* a key counted three times or more in a column of two cells, whose label is not the
\* spelling seen first
C9_Witness ==
    \E c \in CategorySet :
        /\ sheets[c].written /\ case_insensitive
        /\ Len(df) = 2 /\ df[1].cells[GenesAt] # NaN /\ df[2].cells[GenesAt] # NaN
        /\ LET toks == CountedTokens(Series(df, c))
           IN \E k \in DOMAIN sheets[c].rows :
                 /\ sheets[c].rows[k].n >= 3
                 /\ \E i \in DOMAIN toks :
                       /\ Lower(toks[i]) = Lower(sheets[c].rows[k].name)
                       /\ FirstSeen(toks, toks[i]) < FirstSeen(toks, sheets[c].rows[k].name)

(***************************************************************************)
(* Properties of cap_words                                                 *)
(***************************************************************************)
\* C10: capping a capped text at the same or a larger cap returns it unchanged, and a
\* text of at most cap words is returned unchanged.
C10_Idempotent ==
    /\ (cpc = "twice" /\ cap_n <= cap_m) => cap_r2 = cap_r1
    /\ (cpc \in {"once", "twice"} /\ word_count(cap_text) <= cap_n) => cap_r1 = cap_text
    /\ (cpc \in {"once", "twice"} /\ word_count(cap_text) > cap_n) =>
          /\ word_count(cap_r1) = cap_n
          /\ Words(cap_r1) = SubSeq(Words(cap_text), 1, cap_n)

\* a text of more words than the cap, with a line break, was capped and capped again
C10_Witness ==
    /\ cpc = "twice" /\ cap_n <= cap_m
    /\ word_count(cap_text) > cap_n /\ cap_n > 0
    /\ cap_r1 # cap_text
    /\ \E k \in DOMAIN cap_text : cap_text[k] = "\n"

(***************************************************************************)
(* clean_token on its own                                                  *)
(***************************************************************************)
MaxTokLen == 3

TokenAlphabet == {"a", " ", "'", "\"", "[", "]", "{", "}", "(", ")"}

InitToken ==
    /\ tok_in \in StringsUpTo(TokenAlphabet, MaxTokLen)
    /\ tok_out = <<>> /\ kpc = "new"

\* line 50: name = clean_token(p)
CleanToken ==
    /\ kpc = "new"
    /\ tok_out' = clean_token(tok_in)
    /\ kpc' = "cleaned"
    /\ UNCHANGED tok_in

InitTokenOnly == ExtractOff /\ ParseOff /\ TableOff /\ CapOff /\ InitToken
NextToken == CleanToken /\ UNCHANGED <<extract_vars, parse_vars, table_vars, cap_vars>>
SpecToken == InitTokenOnly /\ [][NextToken]_vars

\* an opening character and the closing character that matches it: the two quotes,
\* square brackets, braces, and round brackets
MatchingPairs ==
    { <<"'", "'">>, <<"\"", "\"">>, <<"[", "]">>, <<"{", "}">>, <<"(", ")">> }

\* the whole trimmed token is wrapped in one matching pair
WrappedInPair(t) == Len(t) >= 2 /\ <<t[1], t[Len(t)]>> \in MatchingPairs

\* C11: clean_token trims the token, strips one outer pair only if the whole token is
\* wrapped in a matching pair of quote, bracket or brace characters (a token whose first
\* and last characters do not form such a pair keeps them), and collapses whitespace
\* runs to one space.
C11_CleanToken ==
    kpc = "cleaned" =>
        LET t == Strip(tok_in)
        IN tok_out = IF WrappedInPair(t)
                     THEN Strip(CollapseWs(Strip(SubSeq(t, 2, Len(t) - 1))))
                     ELSE Strip(CollapseWs(t))

====
